---- MODULE Spec2Model ----
(***************************************************************************)
(* The three-stage aspiration pipeline of the DPR simulator:               *)
(*   stage 1  AbsorbAgent.invoke    (one evaluation per member, batched)   *)
(*   stage 2  CompileAgent.invoke   (aggregation of the relevant results)  *)
(*   stage 3  FollowUpAgent.invoke  (action plan from the aggregation)     *)
(* The agents are modelled from their source.  The orchestrator           *)
(* (core/simulator.py), the cost function (agents/base.py) and the result  *)
(* records (models) are modelled from the specification.                   *)
(*                                                                         *)
(* Costs are integers in units of 1e-7 USD, so that the per-1000-token     *)
(* rates 0.0001 and 0.0004 USD become 1 and 4 units per token.             *)
(***************************************************************************)
EXTENDS Integers, Sequences, FiniteSets, TLC

\* ------------------------------------------------------------------ bounds
MaxMembers == 3
MaxBatch == 2
\* pieces (fence, tag, newline, other text, JSON value) of a content whose
\* parsing is followed on its own
MaxPieces == 6

\* ------------------------------------------------------- configuration
\* settings.prompt_cost_per_1k = 0.0001 USD, in units of 1e-4 USD
prompt_cost_per_1k == 1
\* settings.completion_cost_per_1k = 0.0004 USD, in units of 1e-4 USD
completion_cost_per_1k == 4

\* Python's None, for the optional error field and a null token_usage.
None == "None"

\* ------------------------------------------------------- text of a response
\* A response content is a sequence of symbols: "bt" is one backtick, "json"
\* the four characters of the language tag, "nl" one newline, "x" one
\* character that is neither whitespace nor JSON, and each JSON atom below
\* the text of one complete JSON value.
JsonAtoms == {"{T}", "{S}", "{R}", "{t}", "{}", "[]"}

Fence == <<"bt", "bt", "bt">>

\* The JSON value an atom denotes: dict tells whether it is an object,
\* obj holds the keys of the object.
JsonValue(atom) ==
    CASE atom = "{T}" -> [dict |-> TRUE,
                          obj |-> [relevansi |-> "Tinggi",
                                   alasan_relevansi |-> "alasan",
                                   poin_kunci |-> <<"poin">>,
                                   rekomendasi_awal |-> "rekomendasi",
                                   ringkasan |-> "ringkasan",
                                   tema_utama |-> <<"tema">>,
                                   fraksi_terlibat |-> <<"fraksi">>,
                                   rekomendasi_tindak_lanjut |-> "tindak",
                                   langkah_tindak_lanjut |-> <<"langkah">>,
                                   komisi_penanggung_jawab |-> "komisi",
                                   timeline |-> "timeline",
                                   indikator_keberhasilan |-> <<"indikator">>,
                                   mekanisme |-> "RDP",
                                   estimasi_anggaran |-> "Rp 1 miliar",
                                   rincian_anggaran |-> <<"item">>,
                                   sumber_dana |-> "APBN"]]
      [] atom = "{S}" -> [dict |-> TRUE, obj |-> [relevansi |-> "Sedang"]]
      [] atom = "{R}" -> [dict |-> TRUE, obj |-> [relevansi |-> "Rendah"]]
      [] atom = "{t}" -> [dict |-> TRUE, obj |-> [relevansi |-> "tinggi"]]
      [] atom = "{}"  -> [dict |-> TRUE, obj |-> [k \in {} |-> ""]]
      [] OTHER        -> [dict |-> FALSE, obj |-> [k \in {} |-> ""]]

\* str.startswith / str.endswith / str.strip on symbol sequences
StartsWith(s, p) ==
    /\ Len(s) >= Len(p)
    /\ SubSeq(s, 1, Len(p)) = p

EndsWith(s, p) ==
    /\ Len(s) >= Len(p)
    /\ SubSeq(s, Len(s) - Len(p) + 1, Len(s)) = p

RECURSIVE LStrip(_)
LStrip(s) ==
    IF s # <<>> /\ Head(s) = "nl" THEN LStrip(Tail(s)) ELSE s

RECURSIVE RStrip(_)
RStrip(s) ==
    IF s # <<>> /\ s[Len(s)] = "nl" THEN RStrip(SubSeq(s, 1, Len(s) - 1)) ELSE s

Strip(s) == LStrip(RStrip(s))

\* json.loads: the text must be one JSON value, whitespace around it allowed.
\* exc is the message of the JSONDecodeError, or None.
JsonLoads(s) ==
    LET t == Strip(s)
    IN  IF Len(t) = 1 /\ t[1] \in JsonAtoms
        THEN [exc |-> None, value |-> JsonValue(t[1])]
        ELSE IF t = <<>> \/ t[1] \notin JsonAtoms
        THEN [exc |-> "Expecting value: line 1 column 1 (char 0)",
              value |-> JsonValue("[]")]
        ELSE [exc |-> "Extra data: line 1 column 2 (char 1)",
              value |-> JsonValue("[]")]

\* dict.get(key, default)
Get(obj, key, default) ==
    IF key \in DOMAIN obj THEN obj[key] ELSE default

\* --------------------------------------------------- generation client
\* What one llm.ainvoke can do.  exc is the message of the exception it
\* raises (None when it returns); otherwise has_metadata tells whether the
\* response has a response_metadata attribute, has_usage whether that holds
\* a token_usage key, null_usage whether its value is null, usage the token
\* counts it holds, and content is response.content.
NoUsage == [k \in {} |-> 0]
FullUsage == [k \in {"prompt_tokens", "completion_tokens"} |->
                 IF k = "prompt_tokens" THEN 1000 ELSE 500]
PromptOnlyUsage == [k \in {"prompt_tokens"} |-> 2000]

Raises(msg) ==
    [exc |-> msg, has_metadata |-> FALSE, has_usage |-> FALSE,
     null_usage |-> FALSE, usage |-> NoUsage, content |-> <<>>]

Returns(has_metadata, has_usage, null_usage, usage, content) ==
    [exc |-> None, has_metadata |-> has_metadata, has_usage |-> has_usage,
     null_usage |-> null_usage, usage |-> usage, content |-> content]

Tagged(atom) == Fence \o <<"json", "nl", atom, "nl">> \o Fence
Bare(atom) == Fence \o <<"nl", atom, "nl">> \o Fence

Responses ==
    { Raises("Request timed out."),
      Returns(TRUE, TRUE, FALSE, FullUsage, Tagged("{T}")),
      Returns(FALSE, FALSE, FALSE, NoUsage, <<"{S}">>),
      Returns(TRUE, TRUE, FALSE, PromptOnlyUsage, Bare("{R}")),
      Returns(TRUE, FALSE, FALSE, NoUsage, <<"{}">>),
      Returns(TRUE, TRUE, FALSE, FullUsage, <<"{t}">>),
      Returns(TRUE, TRUE, FALSE, FullUsage, <<"x", "x">>),
      Returns(TRUE, TRUE, FALSE, FullUsage, <<"[]">>) }

\* ------------------------------------------------------ cost accountant
\* BaseAgent._calculate_cost, in units of 1e-7 USD.
calculate_cost(prompt_tokens, completion_tokens) ==
    prompt_tokens * prompt_cost_per_1k
        + completion_tokens * completion_cost_per_1k

\* The cost block of the three invoke methods: the cost after it, and the
\* message of the exception it raises (None when it raises none).
UsageCost(response) ==
    IF ~response.has_metadata
    THEN [exc |-> None, cost |-> 0]
    ELSE IF response.has_usage /\ response.null_usage
    THEN [exc |-> "'NoneType' object has no attribute 'get'", cost |-> 0]
    ELSE LET usage == IF response.has_usage THEN response.usage ELSE NoUsage
         IN  [exc |-> None,
              cost |-> calculate_cost(Get(usage, "prompt_tokens", 0),
                                      Get(usage, "completion_tokens", 0))]

\* ------------------------------------------------------- AbsorbAgent
\* An exception that leaves invoke (no result is returned).
Raised == [raised |-> TRUE]

IsRaised(r) == "raised" \in DOMAIN r

\* Variant of the fence stripping below: the tagged fence is cut like the
\* bare one, three characters instead of seven.
AbsorbStripTagAsBare(content) ==
    LET c1 == IF StartsWith(content, Fence \o <<"json">>)
              THEN SubSeq(content, 4, Len(content)) ELSE content
        c2 == IF StartsWith(c1, Fence)
              THEN SubSeq(c1, 4, Len(c1)) ELSE c1
        c3 == IF EndsWith(c2, Fence)
              THEN SubSeq(c2, 1, Len(c2) - 3) ELSE c2
    IN  Strip(c3)

\* The fence stripping of AbsorbAgent.invoke.
AbsorbStrip(content) ==
    LET c1 == IF StartsWith(content, Fence \o <<"json">>)
              THEN SubSeq(content, 5, Len(content)) ELSE content
        c2 == IF StartsWith(c1, Fence)
              THEN SubSeq(c1, 4, Len(c1)) ELSE c1
        c3 == IF EndsWith(c2, Fence)
              THEN SubSeq(c2, 1, Len(c2) - 3) ELSE c2
    IN  Strip(c3)

\* The parsing of AbsorbAgent.invoke, fence stripping then json.loads, of each
\* content the generation client returns.
AbsorbParsed ==
    [content \in {response.content : response \in Responses} |->
        JsonLoads(AbsorbStrip(content))]

\* Variants of the except branch of AbsorbAgent.invoke: the exception is
\* raised again; the accrued cost is dropped; the error is not recorded.
AbsorbExceptReraise(member, aspirasi, cost, e) == Raised

AbsorbExceptZeroCost(member, aspirasi, cost, e) ==
    [member_id |-> member.id,
     aspirasi_id |-> aspirasi.id,
     relevansi |-> "rendah",
     alasan_relevansi |-> "",
     poin_kunci |-> <<>>,
     rekomendasi_awal |-> "",
     error |-> e,
     cost_usd |-> 0]

AbsorbExceptNoError(member, aspirasi, cost, e) ==
    [member_id |-> member.id,
     aspirasi_id |-> aspirasi.id,
     relevansi |-> "rendah",
     alasan_relevansi |-> "",
     poin_kunci |-> <<>>,
     rekomendasi_awal |-> "",
     error |-> None,
     cost_usd |-> cost]

\* Variant of the except branch: the relevance of a failed evaluation is the
\* middle level.
AbsorbExceptMedium(member, aspirasi, cost, e) ==
    [member_id |-> member.id,
     aspirasi_id |-> aspirasi.id,
     relevansi |-> "Sedang",
     alasan_relevansi |-> "",
     poin_kunci |-> <<>>,
     rekomendasi_awal |-> "",
     error |-> e,
     cost_usd |-> cost]

\* The except branch of AbsorbAgent.invoke.
AbsorbExcept(member, aspirasi, cost, e) ==
    [member_id |-> member.id,
     aspirasi_id |-> aspirasi.id,
     relevansi |-> "rendah",
     alasan_relevansi |-> "",
     poin_kunci |-> <<>>,
     rekomendasi_awal |-> "",
     error |-> e,
     cost_usd |-> cost]

\* Variant of the return of the try branch: the two ids are swapped.
AbsorbReturnSwappedIds(member, aspirasi, cost, result) ==
    [member_id |-> aspirasi.id,
     aspirasi_id |-> member.id,
     relevansi |-> Get(result, "relevansi", "rendah"),
     alasan_relevansi |-> Get(result, "alasan_relevansi", ""),
     poin_kunci |-> Get(result, "poin_kunci", <<>>),
     rekomendasi_awal |-> Get(result, "rekomendasi_awal", ""),
     error |-> None,
     cost_usd |-> cost]

\* The return of the try branch of AbsorbAgent.invoke.
AbsorbReturn(member, aspirasi, cost, result) ==
    [member_id |-> member.id,
     aspirasi_id |-> aspirasi.id,
     relevansi |-> Get(result, "relevansi", "rendah"),
     alasan_relevansi |-> Get(result, "alasan_relevansi", ""),
     poin_kunci |-> Get(result, "poin_kunci", <<>>),
     rekomendasi_awal |-> Get(result, "rekomendasi_awal", ""),
     error |-> None,
     cost_usd |-> cost]

\* AbsorbAgent.invoke from the point where llm.ainvoke has ended with
\* `response`: the AbsorpsiResponse it returns.
AbsorbInvoke(member, aspirasi, response) ==
    IF response.exc # None
    THEN AbsorbExcept(member, aspirasi, 0, response.exc)
    ELSE LET uc == UsageCost(response)
             parsed == AbsorbParsed[response.content]
         IN  IF uc.exc # None
             THEN AbsorbExcept(member, aspirasi, 0, uc.exc)
             ELSE IF parsed.exc # None
             THEN AbsorbExcept(member, aspirasi, uc.cost, parsed.exc)
             ELSE IF ~parsed.value.dict
             THEN AbsorbExcept(member, aspirasi, uc.cost,
                               "'list' object has no attribute 'get'")
             ELSE AbsorbReturn(member, aspirasi, uc.cost, parsed.value.obj)

\* ------------------------------------------------------- CompileAgent
\* Variant of the filter below: the relevance is not tested.
RelevantResponsesNoLevelTest(responses) ==
    SelectSeq(responses, LAMBDA r : r.error = None)

\* The filter of CompileAgent.invoke.
RelevantResponses(responses) ==
    SelectSeq(responses,
              LAMBDA r : r.relevansi \in {"Tinggi", "Sedang"} /\ r.error = None)

\* The fence stripping of CompileAgent.invoke.
CompileStrip(content) ==
    LET c1 == IF StartsWith(content, Fence \o <<"json">>)
              THEN SubSeq(content, 5, Len(content)) ELSE content
        c2 == IF StartsWith(c1, Fence)
              THEN SubSeq(c1, 4, Len(c1)) ELSE c1
        c3 == IF EndsWith(c2, Fence)
              THEN SubSeq(c2, 1, Len(c2) - 3) ELSE c2
    IN  Strip(c3)

\* The parsing of CompileAgent.invoke, fence stripping then json.loads, of each
\* content the generation client returns.
CompileParsed ==
    [content \in {response.content : response \in Responses} |->
        JsonLoads(CompileStrip(content))]

\* The KompilasiResponse record, with the defaults of its optional fields.
KompilasiResponse(status, jumlah_anggota, ringkasan, tema_utama, fraksi_terlibat, rekomendasi_tindak_lanjut, error, cost_usd) ==
    [status |-> status,
     jumlah_anggota |-> jumlah_anggota,
     ringkasan |-> ringkasan,
     tema_utama |-> tema_utama,
     fraksi_terlibat |-> fraksi_terlibat,
     rekomendasi_tindak_lanjut |-> rekomendasi_tindak_lanjut,
     error |-> error,
     cost_usd |-> cost_usd]

\* The short circuit of CompileAgent.invoke: no relevant response.
CompileNotRelevant ==
    KompilasiResponse("tidak_relevan", 0, "", <<>>, <<>>, "", None, 0)

\* Variants of the except branch of CompileAgent.invoke: the exception is
\* raised again; the count of relevant responses is lost; the accrued cost
\* is dropped; the status is that of the short circuit.
CompileExceptReraise(relevant_responses, cost, e) == Raised

CompileExceptNoCount(relevant_responses, cost, e) ==
    KompilasiResponse("error", 0, "", <<>>, <<>>, "", e, cost)

CompileExceptZeroCost(relevant_responses, cost, e) ==
    KompilasiResponse("error", Len(relevant_responses), "", <<>>, <<>>, "",
                      e, 0)

CompileExceptNotRelevant(relevant_responses, cost, e) ==
    KompilasiResponse("tidak_relevan", Len(relevant_responses), "", <<>>,
                      <<>>, "", e, cost)

\* The except branch of CompileAgent.invoke.
CompileExcept(relevant_responses, cost, e) ==
    KompilasiResponse("error", Len(relevant_responses), "", <<>>, <<>>, "",
                      e, cost)

\* The return of the try branch of CompileAgent.invoke.
CompileReturn(relevant_responses, cost, result) ==
    KompilasiResponse("terkumpul", Len(relevant_responses),
                      Get(result, "ringkasan", ""),
                      Get(result, "tema_utama", <<>>),
                      Get(result, "fraksi_terlibat", <<>>),
                      Get(result, "rekomendasi_tindak_lanjut", ""),
                      None, cost)

\* CompileAgent.invoke from the point where llm.ainvoke has ended with
\* `response`: the KompilasiResponse it returns.
CompileInvoke(relevant_responses, response) ==
    IF response.exc # None
    THEN CompileExcept(relevant_responses, 0, response.exc)
    ELSE LET uc == UsageCost(response)
             parsed == CompileParsed[response.content]
         IN  IF uc.exc # None
             THEN CompileExcept(relevant_responses, 0, uc.exc)
             ELSE IF parsed.exc # None
             THEN CompileExcept(relevant_responses, uc.cost, parsed.exc)
             ELSE IF ~parsed.value.dict
             THEN CompileExcept(relevant_responses, uc.cost,
                                "'list' object has no attribute 'get'")
             ELSE CompileReturn(relevant_responses, uc.cost, parsed.value.obj)

\* ------------------------------------------------------- FollowUpAgent
\* The fence stripping of FollowUpAgent.invoke.
FollowUpStrip(content) ==
    LET c1 == IF StartsWith(content, Fence \o <<"json">>)
              THEN SubSeq(content, 5, Len(content)) ELSE content
        c2 == IF StartsWith(c1, Fence)
              THEN SubSeq(c1, 4, Len(c1)) ELSE c1
        c3 == IF EndsWith(c2, Fence)
              THEN SubSeq(c2, 1, Len(c2) - 3) ELSE c2
    IN  Strip(c3)

\* The parsing of FollowUpAgent.invoke, fence stripping then json.loads, of each
\* content the generation client returns.
FollowUpParsed ==
    [content \in {response.content : response \in Responses} |->
        JsonLoads(FollowUpStrip(content))]

\* The TindakLanjutResponse record, with the defaults of its optional fields.
TindakLanjutResponse(langkah_tindak_lanjut, komisi_penanggung_jawab, timeline, indikator_keberhasilan, mekanisme, estimasi_anggaran, rincian_anggaran, sumber_dana, error, cost_usd) ==
    [langkah_tindak_lanjut |-> langkah_tindak_lanjut,
     komisi_penanggung_jawab |-> komisi_penanggung_jawab,
     timeline |-> timeline,
     indikator_keberhasilan |-> indikator_keberhasilan,
     mekanisme |-> mekanisme,
     estimasi_anggaran |-> estimasi_anggaran,
     rincian_anggaran |-> rincian_anggaran,
     sumber_dana |-> sumber_dana,
     error |-> error,
     cost_usd |-> cost_usd]

\* The short circuit of FollowUpAgent.invoke: the compilation is not
\* "terkumpul".
FollowUpNoKompilasi ==
    TindakLanjutResponse(<<>>, "", "", <<>>, "", "", <<>>, "",
        "Tidak ada kompilasi yang valid untuk ditindaklanjuti", 0)

\* The except branch of FollowUpAgent.invoke.
FollowUpExcept(cost, e) ==
    TindakLanjutResponse(<<>>, "", "", <<>>, "", "", <<>>, "", e, cost)

\* The return of the try branch of FollowUpAgent.invoke.
FollowUpReturn(cost, result) ==
    TindakLanjutResponse(Get(result, "langkah_tindak_lanjut", <<>>),
                         Get(result, "komisi_penanggung_jawab", ""),
                         Get(result, "timeline", ""),
                         Get(result, "indikator_keberhasilan", <<>>),
                         Get(result, "mekanisme", ""),
                         Get(result, "estimasi_anggaran", ""),
                         Get(result, "rincian_anggaran", <<>>),
                         Get(result, "sumber_dana", ""),
                         None, cost)

\* FollowUpAgent.invoke from the point where llm.ainvoke has ended with
\* `response`: the TindakLanjutResponse it returns.
FollowUpInvoke(response) ==
    IF response.exc # None
    THEN FollowUpExcept(0, response.exc)
    ELSE LET uc == UsageCost(response)
             parsed == FollowUpParsed[response.content]
         IN  IF uc.exc # None
             THEN FollowUpExcept(0, uc.exc)
             ELSE IF parsed.exc # None
             THEN FollowUpExcept(uc.cost, parsed.exc)
             ELSE IF ~parsed.value.dict
             THEN FollowUpExcept(uc.cost,
                                 "'list' object has no attribute 'get'")
             ELSE FollowUpReturn(uc.cost, parsed.value.obj)

\* Variant of the guard below: the short circuit is never taken.
CompileShortCircuitOff(relevant_responses) == FALSE

\* The guard of the short circuit of CompileAgent.invoke.
CompileShortCircuit(relevant_responses) == relevant_responses = <<>>

\* Variant of the guard below: only a tidak_relevan compilation is refused.
FollowUpShortCircuitNotRelevantOnly(kompilasi_response) ==
    kompilasi_response.status = "tidak_relevan"

\* The guard of the short circuit of FollowUpAgent.invoke.
FollowUpShortCircuit(kompilasi_response) ==
    kompilasi_response.status # "terkumpul"

\* ------------------------------------------- observation of the calls
\* What a generation-client call did, recorded beside the result of the
\* agent that issued it: whether the call itself failed, whether the content
\* it returned holds no JSON value at all (whatever fences are removed),
\* whether the JSON value it holds is an object, and the cost of its token
\* usage by the cost accountant's contract (absent counts are zero).
RECURSIVE Payload(_)
Payload(content) ==
    IF content = <<>> THEN <<>>
    ELSE IF Head(content) \in {"bt", "json", "nl"} THEN Payload(Tail(content))
    ELSE <<Head(content)>> \o Payload(Tail(content))

NoJson(content) ==
    LET body == Payload(content)
    IN  ~(Len(body) = 1 /\ body[1] \in JsonAtoms)

SpecCost(response) ==
    IF response.exc # None \/ ~response.has_metadata \/ ~response.has_usage
       \/ response.null_usage
    THEN 0
    ELSE (IF "prompt_tokens" \in DOMAIN response.usage
          THEN response.usage["prompt_tokens"] * prompt_cost_per_1k ELSE 0)
         + (IF "completion_tokens" \in DOMAIN response.usage
            THEN response.usage["completion_tokens"] * completion_cost_per_1k
            ELSE 0)

HoldsObject(content) ==
    LET body == Payload(content)
    IN  Len(body) = 1 /\ body[1] \in JsonAtoms /\ JsonValue(body[1]).dict

NoCall ==
    [called |-> FALSE, failed |-> FALSE, nojson |-> FALSE, object |-> FALSE,
     cost |-> 0]

\* The observation of each response the generation client can give.
Observations ==
    [response \in Responses |->
        [called |-> TRUE,
         failed |-> response.exc # None,
         nojson |-> response.exc = None /\ NoJson(response.content),
         object |-> response.exc = None /\ HoldsObject(response.content),
         cost |-> SpecCost(response)]]

Observed(response) == Observations[response]

\* ------------------------------------------------------- orchestrator
VARIABLES
    members,        \* the members of the run, in order
    batch_size,     \* settings.batch_size
    pc,             \* where the run is
    lo,             \* index of the first member of the current batch
    issued,         \* members of the current batch whose call is issued
    batch_results,  \* results of the evaluations of the batch that returned
    evaluations,    \* the evaluation results collected so far
    kompilasi,      \* <<>> or the one aggregation result
    tindak_lanjut,  \* <<>> or the one action-plan result
    report,         \* <<>> or the run report
    llm_calls,      \* number of generation-client calls issued, per caller
    invoked,        \* number of times the invoke of stage 2, of stage 3 began
    observed,       \* what each generation-client call did
    pauses,         \* number of inter-batch pauses taken
    batch_no,       \* number of batches started
    batch_of,       \* per member, the batch its call was issued in (0: none)
    overtaken,      \* during stage 1: an evaluation has returned before
                    \* one of a member that precedes it in its batch
    parse_content,  \* a response content whose parsing is followed on its own
    parse_pc,       \* the agent whose parsing of content comes next
    parse_result    \* per agent, what its parsing of content gave

vars == <<members, batch_size, pc, lo, issued, batch_results, evaluations,
          kompilasi, tindak_lanjut, report, llm_calls, observed, pauses,
          batch_no, batch_of, overtaken, invoked, parse_content, parse_pc,
          parse_result>>

\* The variables that only record what happened.
history == <<batch_no, batch_of, overtaken, invoked>>

\* The variables of the parsing followed on its own.
parser == <<parse_content, parse_pc, parse_result>>

\* No parsing of content done yet.
NotParsed == [absorb |-> <<>>, compile |-> <<>>, followup |-> <<>>]

aspirasi == [id |-> 1]

Member(i) == [id |-> 100 + i]

N == Len(members)

\* Variant of the batch below: one member too many.
BatchAtOneMore(first) ==
    {k \in 1..Len(members) : first <= k /\ k <= first + batch_size}

\* The members of the batch that starts at `first`.
BatchAt(first) ==
    {k \in 1..N : first <= k /\ k < first + batch_size}

Batch == BatchAt(lo)

InFlight == issued \ DOMAIN batch_results

Init ==
    /\ members \in {[i \in 1..n |-> Member(i)] : n \in 0..MaxMembers}
    /\ batch_size \in 1..MaxBatch
    /\ pc = "batch"
    /\ lo = 1
    /\ issued = {}
    /\ batch_results = [k \in {} |-> Raised]
    /\ evaluations = <<>>
    /\ kompilasi = <<>>
    /\ tindak_lanjut = <<>>
    /\ report = <<>>
    /\ llm_calls = [absorb |-> [k \in 1..Len(members) |-> 0],
                    compile |-> 0, followup |-> 0]
    /\ observed = [absorb |-> [k \in 1..Len(members) |-> NoCall],
                   compile |-> NoCall, followup |-> NoCall]
    /\ pauses = 0
    /\ batch_no = 0
    /\ batch_of = [k \in 1..Len(members) |-> 0]
    /\ overtaken = FALSE
    /\ invoked = [compile |-> 0, followup |-> 0]
    /\ parse_content = <<>>
    /\ parse_pc = "off"
    /\ parse_result = NotParsed

\* Variant of the step below: stage 1 ends after its first batch.
NextBatchFirstOnly ==
    /\ pc = "batch"
    /\ pc' = IF lo <= N /\ batch_no = 0 THEN "gather" ELSE "compile"
    /\ issued' = {}
    /\ batch_results' = [k \in {} |-> Raised]
    /\ batch_no' = IF lo <= N /\ batch_no = 0 THEN batch_no + 1 ELSE batch_no
    /\ UNCHANGED <<members, batch_size, lo, evaluations, kompilasi,
                   tindak_lanjut, report, llm_calls, observed, pauses,
                   batch_of, overtaken, invoked>>
    /\ UNCHANGED parser

\* Head of the batch loop: the next batch starts, or stage 1 is over.
NextBatch ==
    /\ pc = "batch"
    /\ pc' = IF lo <= N THEN "gather" ELSE "compile"
    /\ issued' = {}
    /\ batch_results' = [k \in {} |-> Raised]
    /\ batch_no' = IF lo <= N THEN batch_no + 1 ELSE batch_no
    /\ UNCHANGED <<members, batch_size, lo, evaluations, kompilasi,
                   tindak_lanjut, report, llm_calls, observed, pauses,
                   batch_of, overtaken, invoked>>
    /\ UNCHANGED parser

\* Variant of the step below: the call of any member not yet evaluated is
\* issued, whether in the current batch or not.
AbsorbCallAnyMember(k) ==
    /\ pc = "gather"
    /\ k \in {j \in 1..N : lo <= j} \ issued
    /\ issued' = issued \cup {k}
    /\ llm_calls' = [llm_calls EXCEPT !.absorb[k] = @ + 1]
    /\ batch_of' = [batch_of EXCEPT ![k] = batch_no]
    /\ UNCHANGED <<members, batch_size, pc, lo, batch_results, evaluations,
                   kompilasi, tindak_lanjut, report, observed, pauses,
                   batch_no, overtaken, invoked>>
    /\ UNCHANGED parser

\* AbsorbAgent.invoke for member k, up to its await of llm.ainvoke.
AbsorbCall(k) ==
    /\ pc = "gather"
    /\ k \in Batch \ issued
    /\ issued' = issued \cup {k}
    /\ llm_calls' = [llm_calls EXCEPT !.absorb[k] = @ + 1]
    /\ batch_of' = [batch_of EXCEPT ![k] = batch_no]
    /\ UNCHANGED <<members, batch_size, pc, lo, batch_results, evaluations,
                   kompilasi, tindak_lanjut, report, observed, pauses,
                   batch_no, overtaken, invoked>>
    /\ UNCHANGED parser

\* llm.ainvoke for member k ends and AbsorbAgent.invoke runs to its end.
AbsorbDone(k) ==
    /\ pc = "gather"
    /\ k \in InFlight
    /\ \E response \in Responses :
         LET r == AbsorbInvoke(members[k], aspirasi, response)
         IN  /\ observed' = [observed EXCEPT !.absorb[k] = Observed(response)]
             /\ IF IsRaised(r)
                THEN /\ pc' = "aborted"
                     /\ UNCHANGED batch_results
                ELSE /\ pc' = pc
                     /\ batch_results' =
                          [j \in DOMAIN batch_results \cup {k} |->
                              IF j = k THEN r ELSE batch_results[j]]
    /\ overtaken' = (overtaken
                        \/ \E j \in Batch : j < k /\ j \notin DOMAIN batch_results)
    /\ UNCHANGED <<members, batch_size, lo, issued, evaluations, kompilasi,
                   tindak_lanjut, report, llm_calls, pauses, batch_no,
                   batch_of, invoked>>
    /\ UNCHANGED parser

\* Variant of the step below: the run pauses after every batch, the last
\* one included.
GatherDoneAlwaysPause ==
    /\ pc = "gather"
    /\ DOMAIN batch_results = Batch
    /\ evaluations' = evaluations \o
          [j \in 1..Cardinality(Batch) |-> batch_results[lo + j - 1]]
    /\ lo' = lo + batch_size
    /\ pc' = "pause"
    /\ UNCHANGED <<members, batch_size, issued, batch_results, kompilasi,
                   tindak_lanjut, report, llm_calls, observed, pauses>>
    /\ UNCHANGED history
    /\ UNCHANGED parser

\* Every evaluation of the batch has returned: the results are collected in
\* member order, and the run pauses if another batch follows.
GatherDone ==
    /\ pc = "gather"
    /\ DOMAIN batch_results = Batch
    /\ evaluations' = evaluations \o
          [j \in 1..Cardinality(Batch) |-> batch_results[lo + j - 1]]
    /\ lo' = lo + batch_size
    /\ pc' = IF lo + batch_size <= N THEN "pause" ELSE "batch"
    /\ UNCHANGED <<members, batch_size, issued, batch_results, kompilasi,
                   tindak_lanjut, report, llm_calls, observed, pauses>>
    /\ UNCHANGED history
    /\ UNCHANGED parser

\* The inter-batch delay elapses.
Pause ==
    /\ pc = "pause"
    /\ pc' = "batch"
    /\ pauses' = pauses + 1
    /\ UNCHANGED <<members, batch_size, lo, issued, batch_results,
                   evaluations, kompilasi, tindak_lanjut, report, llm_calls,
                   observed>>
    /\ UNCHANGED history
    /\ UNCHANGED parser

\* CompileAgent.invoke up to its return without a call or its await.
CompileCall ==
    /\ pc = "compile"
    /\ IF CompileShortCircuit(RelevantResponses(evaluations))
       THEN /\ kompilasi' = <<CompileNotRelevant>>
            /\ pc' = "followup"
            /\ UNCHANGED llm_calls
       ELSE /\ llm_calls' = [llm_calls EXCEPT !.compile = @ + 1]
            /\ pc' = "compile_wait"
            /\ UNCHANGED kompilasi
    /\ UNCHANGED <<members, batch_size, lo, issued, batch_results,
                   evaluations, tindak_lanjut, report, observed, pauses>>
    /\ invoked' = [invoked EXCEPT !.compile = @ + 1]
    /\ overtaken' = FALSE
    /\ UNCHANGED <<batch_no, batch_of>>
    /\ UNCHANGED parser

\* Variant of the step below: when the call raised, the invoke is begun
\* again instead of returning the error result.
CompileDoneRetry ==
    /\ pc = "compile_wait"
    /\ \E response \in Responses :
         LET r == CompileInvoke(RelevantResponses(evaluations), response)
         IN  /\ observed' = [observed EXCEPT !.compile = Observed(response)]
             /\ IF response.exc # None
                THEN /\ pc' = "compile"
                     /\ UNCHANGED kompilasi
                ELSE /\ pc' = "followup"
                     /\ kompilasi' = <<r>>
    /\ UNCHANGED <<members, batch_size, lo, issued, batch_results,
                   evaluations, tindak_lanjut, report, llm_calls, pauses>>
    /\ UNCHANGED history
    /\ UNCHANGED parser

\* llm.ainvoke ends and CompileAgent.invoke runs to its end.
CompileDone ==
    /\ pc = "compile_wait"
    /\ \E response \in Responses :
         LET r == CompileInvoke(RelevantResponses(evaluations), response)
         IN  /\ observed' = [observed EXCEPT !.compile = Observed(response)]
             /\ IF IsRaised(r)
                THEN /\ pc' = "aborted"
                     /\ UNCHANGED kompilasi
                ELSE /\ pc' = "followup"
                     /\ kompilasi' = <<r>>
    /\ UNCHANGED <<members, batch_size, lo, issued, batch_results,
                   evaluations, tindak_lanjut, report, llm_calls, pauses>>
    /\ UNCHANGED history
    /\ UNCHANGED parser

\* FollowUpAgent.invoke up to its return without a call or its await.
FollowUpCall ==
    /\ pc = "followup"
    /\ IF FollowUpShortCircuit(kompilasi[1])
       THEN /\ tindak_lanjut' = <<FollowUpNoKompilasi>>
            /\ pc' = "report"
            /\ UNCHANGED llm_calls
       ELSE /\ llm_calls' = [llm_calls EXCEPT !.followup = @ + 1]
            /\ pc' = "followup_wait"
            /\ UNCHANGED tindak_lanjut
    /\ UNCHANGED <<members, batch_size, lo, issued, batch_results,
                   evaluations, kompilasi, report, observed, pauses>>
    /\ invoked' = [invoked EXCEPT !.followup = @ + 1]
    /\ UNCHANGED <<batch_no, batch_of, overtaken>>
    /\ UNCHANGED parser

\* llm.ainvoke ends and FollowUpAgent.invoke runs to its end.
FollowUpDone ==
    /\ pc = "followup_wait"
    /\ \E response \in Responses :
         LET r == FollowUpInvoke(response)
         IN  /\ observed' = [observed EXCEPT !.followup = Observed(response)]
             /\ IF IsRaised(r)
                THEN /\ pc' = "aborted"
                     /\ UNCHANGED tindak_lanjut
                ELSE /\ pc' = "report"
                     /\ tindak_lanjut' = <<r>>
    /\ UNCHANGED <<members, batch_size, lo, issued, batch_results,
                   evaluations, kompilasi, report, llm_calls, pauses>>
    /\ UNCHANGED history
    /\ UNCHANGED parser

RECURSIVE SumCost(_)
SumCost(results) ==
    IF results = <<>> THEN 0
    ELSE Head(results).cost_usd + SumCost(Tail(results))

\* The run report is assembled and returned.
Report ==
    /\ pc = "report"
    /\ report' = <<[evaluations |-> evaluations,
                    kompilasi |-> kompilasi[1],
                    tindak_lanjut |-> tindak_lanjut[1],
                    total_cost |-> SumCost(evaluations)
                                     + kompilasi[1].cost_usd
                                     + tindak_lanjut[1].cost_usd]>>
    /\ pc' = "done"
    /\ UNCHANGED <<members, batch_size, lo, issued, batch_results,
                   evaluations, kompilasi, tindak_lanjut, llm_calls, observed,
                   pauses>>
    /\ UNCHANGED history
    /\ UNCHANGED parser

Next ==
    \/ NextBatch
    \/ \E k \in 1..MaxMembers : AbsorbCall(k)
    \/ \E k \in 1..MaxMembers : AbsorbDone(k)
    \/ GatherDone
    \/ Pause
    \/ CompileCall
    \/ CompileDone
    \/ FollowUpCall
    \/ FollowUpDone
    \/ Report

Spec == Init /\ [][Next]_vars

\* The event loop runs every step that is ready, and every generation-client
\* call ends (by returning or by raising, a timeout included).
FairSpec == Spec /\ WF_vars(Next)

\* ------------------------------------------- the parsing on its own
\* The three agents parse response.content with the same lines of code.  To
\* follow that parsing over every content, and not only over the contents of
\* Responses, a content is put together from at most MaxPieces pieces and
\* each agent's parsing is applied to it in turn.
Pieces == {Fence, <<"json">>, <<"nl">>, <<"x">>, <<"{T}">>}

RECURSIVE Flatten(_)
Flatten(pieces) ==
    IF pieces = <<>> THEN <<>> ELSE Head(pieces) \o Flatten(Tail(pieces))

Contents ==
    {Flatten(pieces) :
        pieces \in UNION {[1..n -> Pieces] : n \in 0..MaxPieces}}

ParseInit ==
    /\ parse_content \in Contents
    /\ parse_pc = "absorb"
    /\ parse_result = NotParsed
    /\ members = <<>>
    /\ batch_size = 1
    /\ pc = "off"
    /\ lo = 1
    /\ issued = {}
    /\ batch_results = [k \in {} |-> Raised]
    /\ evaluations = <<>>
    /\ kompilasi = <<>>
    /\ tindak_lanjut = <<>>
    /\ report = <<>>
    /\ llm_calls = [absorb |-> <<>>, compile |-> 0, followup |-> 0]
    /\ observed = [absorb |-> <<>>, compile |-> NoCall, followup |-> NoCall]
    /\ pauses = 0
    /\ batch_no = 0
    /\ batch_of = <<>>
    /\ overtaken = FALSE
    /\ invoked = [compile |-> 0, followup |-> 0]

\* The parsing of AbsorbAgent.invoke applied to content.
ParseAbsorb ==
    /\ parse_pc = "absorb"
    /\ parse_result' =
          [parse_result EXCEPT
              !.absorb = <<JsonLoads(AbsorbStrip(parse_content))>>]
    /\ parse_pc' = "compile"
    /\ UNCHANGED <<members, batch_size, pc, lo, issued, batch_results,
                   evaluations, kompilasi, tindak_lanjut, report, llm_calls,
                   observed, pauses, parse_content>>
    /\ UNCHANGED history

\* The parsing of CompileAgent.invoke applied to content.
ParseCompile ==
    /\ parse_pc = "compile"
    /\ parse_result' =
          [parse_result EXCEPT
              !.compile = <<JsonLoads(CompileStrip(parse_content))>>]
    /\ parse_pc' = "followup"
    /\ UNCHANGED <<members, batch_size, pc, lo, issued, batch_results,
                   evaluations, kompilasi, tindak_lanjut, report, llm_calls,
                   observed, pauses, parse_content>>
    /\ UNCHANGED history

\* The parsing of FollowUpAgent.invoke applied to content.
ParseFollowUp ==
    /\ parse_pc = "followup"
    /\ parse_result' =
          [parse_result EXCEPT
              !.followup = <<JsonLoads(FollowUpStrip(parse_content))>>]
    /\ parse_pc' = "parsed"
    /\ UNCHANGED <<members, batch_size, pc, lo, issued, batch_results,
                   evaluations, kompilasi, tindak_lanjut, report, llm_calls,
                   observed, pauses, parse_content>>
    /\ UNCHANGED history

ParseNext ==
    \/ ParseAbsorb
    \/ ParseCompile
    \/ ParseFollowUp

ParseSpec == ParseInit /\ [][ParseNext]_vars

\* ================================================================ claims
\* The result of member k's evaluation, once its invoke has returned.
EvalDone(k) == k <= Len(evaluations) \/ k \in DOMAIN batch_results

EvalResult(k) ==
    IF k <= Len(evaluations) THEN evaluations[k] ELSE batch_results[k]

\* A generation-client call that failed, or returned content with no JSON.
CallFailure(o) == o.called /\ (o.failed \/ o.nojson)

HasError(r) == r.error # None /\ r.error # ""

\* The evaluation results that count for the aggregation: relevance High
\* (Tinggi) or Medium (Sedang) and no error.
Contributing ==
    {i \in 1..Len(evaluations) :
        /\ evaluations[i].relevansi \in {"Tinggi", "Sedang"}
        /\ evaluations[i].error = None}

Stage1Over == pc \notin {"batch", "gather", "pause"} \/ (pc = "batch" /\ lo > N)

\* C1: whatever the generation-client call does (raises, returns text that
\* is not JSON, returns JSON lacking fields, returns without usage
\* metadata), the invoke of each of the three agents returns a result and no
\* exception leaves it; a call that failed or whose content holds no JSON
\* shows as a non-empty error of the returned result.
C1_InvokeNeverRaises ==
    /\ pc # "aborted"
    /\ \A k \in 1..N :
          /\ observed.absorb[k].called => EvalDone(k)
          /\ CallFailure(observed.absorb[k]) => HasError(EvalResult(k))
    /\ observed.compile.called =>
          /\ kompilasi # <<>>
          /\ CallFailure(observed.compile) => HasError(kompilasi[1])
    /\ observed.followup.called =>
          /\ tindak_lanjut # <<>>
          /\ CallFailure(observed.followup) => HasError(tindak_lanjut[1])

C1_Witness ==
    /\ pc = "done"
    /\ N >= 2
    /\ observed.absorb[1].failed
    /\ \E k \in 1..N : observed.absorb[k].nojson
    /\ observed.compile.called /\ ~observed.compile.failed
    /\ observed.followup.nojson

\* C2: every run reaches the end of the Report step, with a report that
\* holds one evaluation result per member, the one aggregation result and
\* the one action-plan result, whatever the members and whatever the
\* generation-client calls do (checked under FairSpec).
ReportComplete ==
    /\ Len(report) = 1
    /\ report[1].evaluations = evaluations
    /\ Len(report[1].evaluations) = N
    /\ Len(kompilasi) = 1
    /\ report[1].kompilasi = kompilasi[1]
    /\ report[1].kompilasi.status \in {"terkumpul", "tidak_relevan", "error"}
    /\ Len(tindak_lanjut) = 1
    /\ report[1].tindak_lanjut = tindak_lanjut[1]

C2_RunCompletes == <>(pc = "done" /\ ReportComplete)

C2_Witness ==
    /\ pc = "done"
    /\ ReportComplete
    /\ N >= 2
    /\ \A k \in 1..N : CallFailure(observed.absorb[k])

\* C3: the evaluation list never holds more entries than there are members,
\* its i-th entry carries the id of the i-th member, and the report's list
\* has exactly one entry per member.
C3_MemberOrder ==
    /\ Len(evaluations) <= N
    /\ \A i \in 1..Len(evaluations) : evaluations[i].member_id = members[i].id
    /\ report # <<>> =>
          /\ Len(report[1].evaluations) = N
          /\ \A i \in 1..N : report[1].evaluations[i].member_id = members[i].id

C3_Witness ==
    /\ pc = "compile"
    /\ N >= 3
    /\ overtaken
    /\ Len(evaluations) = N
    /\ \E i \in 1..N : HasError(evaluations[i])
    /\ \E i \in 1..N : ~HasError(evaluations[i])

\* C4: whatever the status of the aggregation result, its jumlah_anggota is
\* the number of evaluation results with relevance Tinggi or Sedang and no
\* error.
C4_ContributingCount ==
    kompilasi # <<>> =>
        kompilasi[1].jumlah_anggota = Cardinality(Contributing)

C4_Witness ==
    /\ kompilasi # <<>>
    /\ kompilasi[1].status = "error"
    /\ kompilasi[1].jumlah_anggota = 2
    /\ N = 3

\* C5: when no evaluation result has relevance Tinggi or Sedang with no
\* error, the aggregation issues no generation-client call and its result is
\* tidak_relevan with count 0 and cost 0.
C5_NotRelevantShortCircuit ==
    (Stage1Over /\ Contributing = {}) =>
        /\ llm_calls.compile = 0
        /\ ~observed.compile.called
        /\ pc # "compile_wait"
        /\ kompilasi # <<>> =>
              /\ kompilasi[1].status = "tidak_relevan"
              /\ kompilasi[1].jumlah_anggota = 0
              /\ kompilasi[1].cost_usd = 0
        /\ pc \in {"followup", "report", "done"} => kompilasi # <<>>

C5_Witness ==
    /\ pc = "done"
    /\ N >= 2
    /\ Contributing = {}
    /\ kompilasi[1].status = "tidak_relevan"
    /\ \E i \in 1..N : evaluations[i].error = None

\* C6: when the aggregation result is not terkumpul, the action planning
\* issues no generation-client call and its result has a non-empty error,
\* cost 0 and no action step.
C6_FollowUpShortCircuit ==
    (kompilasi # <<>> /\ kompilasi[1].status # "terkumpul") =>
        /\ llm_calls.followup = 0
        /\ ~observed.followup.called
        /\ pc # "followup_wait"
        /\ tindak_lanjut # <<>> =>
              /\ HasError(tindak_lanjut[1])
              /\ tindak_lanjut[1].cost_usd = 0
              /\ tindak_lanjut[1].langkah_tindak_lanjut = <<>>
        /\ pc \in {"report", "done"} => tindak_lanjut # <<>>

C6_Witness ==
    /\ pc = "done"
    /\ kompilasi[1].status = "error"
    /\ kompilasi[1].cost_usd > 0
    /\ tindak_lanjut # <<>>

\* C7: the report's total cost is the sum of the costs of all its evaluation
\* results, failed ones included, of its aggregation result and of its
\* action-plan result, and that is the summed cost of the token usage of the
\* generation-client calls that returned a response.
ReturnedCost(o) == IF o.called /\ ~o.failed THEN o.cost ELSE 0

RECURSIVE SumUpTo(_, _)
SumUpTo(f, n) == IF n = 0 THEN 0 ELSE f[n] + SumUpTo(f, n - 1)

C7_TotalCost ==
    report # <<>> =>
        /\ report[1].total_cost =
              SumUpTo([i \in 1..N |-> report[1].evaluations[i].cost_usd], N)
                + report[1].kompilasi.cost_usd
                + report[1].tindak_lanjut.cost_usd
        /\ report[1].total_cost =
              SumUpTo([i \in 1..N |-> ReturnedCost(observed.absorb[i])], N)
                + ReturnedCost(observed.compile)
                + ReturnedCost(observed.followup)

C7_Witness ==
    /\ pc = "done"
    /\ N >= 2
    /\ \E i \in 1..N : /\ HasError(report[1].evaluations[i])
                       /\ report[1].evaluations[i].cost_usd > 0
    /\ \E i \in 1..N : observed.absorb[i].failed
    /\ report[1].kompilasi.cost_usd > 0
    /\ observed.followup.called
    /\ report[1].total_cost > report[1].kompilasi.cost_usd

\* Relevance Low: Rendah, which the agent writes "rendah" when it supplies it.
IsLow(relevansi) == relevansi \in {"Rendah", "rendah"}

\* C8: a member whose evaluation call fails (the call raises, or its content
\* holds no JSON) still has a result, with relevance Low, a non-empty error
\* and empty justification, key points and recommendation; the run is not
\* aborted, and no step changes or removes the result another member has.
C8_FailureIsolated ==
    /\ [](/\ pc # "aborted"
          /\ \A k \in 1..N :
                CallFailure(observed.absorb[k]) =>
                    /\ EvalDone(k)
                    /\ IsLow(EvalResult(k).relevansi)
                    /\ HasError(EvalResult(k))
                    /\ EvalResult(k).alasan_relevansi = ""
                    /\ EvalResult(k).poin_kunci = <<>>
                    /\ EvalResult(k).rekomendasi_awal = "")
    /\ [][\A j \in 1..N :
             EvalDone(j) => /\ EvalDone(j)'
                            /\ EvalResult(j)' = EvalResult(j)]_vars

C8_Witness ==
    /\ pc = "done"
    /\ batch_size = 2
    /\ N >= 2
    /\ CallFailure(observed.absorb[1])
    /\ evaluations[2].relevansi = "Tinggi"
    /\ evaluations[2].error = None
    /\ evaluations[2].poin_kunci # <<>>

\* C9: the cost of a result with an error is the cost accrued so far: 0 when
\* no call was issued or the call itself failed, and the cost of the call's
\* token usage when the call returned content that holds no JSON; the
\* aggregation result then has status error.
ErrorCostAccrued(r, o) ==
    r.error # None =>
        /\ ~o.called => r.cost_usd = 0
        /\ o.failed => r.cost_usd = 0
        /\ o.nojson => r.cost_usd = o.cost

C9_ErrorCost ==
    /\ \A k \in 1..N :
          EvalDone(k) => ErrorCostAccrued(EvalResult(k), observed.absorb[k])
    /\ kompilasi # <<>> =>
          /\ ErrorCostAccrued(kompilasi[1], observed.compile)
          /\ CallFailure(observed.compile) => kompilasi[1].status = "error"
    /\ tindak_lanjut # <<>> =>
          ErrorCostAccrued(tindak_lanjut[1], observed.followup)

C9_Witness ==
    /\ pc = "done"
    /\ observed.compile.nojson
    /\ kompilasi[1].status = "error"
    /\ kompilasi[1].cost_usd > 0
    /\ \E k \in 1..N : observed.absorb[k].failed
    /\ \E k \in 1..N : observed.absorb[k].nojson /\ evaluations[k].cost_usd > 0

\* C10: the calls of stage 1 are issued in consecutive batches of batch_size
\* members (the last may be smaller), and a call of a batch is issued only
\* when the evaluation of every member of the batches before it has
\* returned and been collected.
BatchIndex(k) == ((k - 1) \div batch_size) + 1

C10_BatchesSequential ==
    \A k \in 1..N :
        /\ (batch_of[k] # 0) = (llm_calls.absorb[k] > 0)
        /\ batch_of[k] # 0 =>
              /\ batch_of[k] = BatchIndex(k)
              /\ \A j \in 1..N :
                    BatchIndex(j) < BatchIndex(k) =>
                        /\ j <= Len(evaluations)
                        /\ observed.absorb[j].called

C10_Witness ==
    /\ pc = "compile"
    /\ N = 3
    /\ batch_size = 2
    /\ batch_of = <<1, 1, 2>>
    /\ batch_no = 2
    /\ Len(evaluations) = N
    /\ overtaken

\* The contents that are the JSON object text `atom` wrapped in a fence with
\* the json tag, wrapped in a bare fence, or not wrapped, with or without
\* the line breaks inside the fence.
ObjectAtoms == {atom \in JsonAtoms : JsonValue(atom).dict}

Wrapped(atom) ==
    [tagged |-> {Tagged(atom), Fence \o <<"json", atom>> \o Fence},
     bare |-> {Bare(atom), Fence \o <<atom>> \o Fence},
     unfenced |-> {<<atom>>}]

WrappedAny(atom) ==
    Wrapped(atom).tagged \cup Wrapped(atom).bare \cup Wrapped(atom).unfenced

ParsedObject(atom) == <<[exc |-> None, value |-> JsonValue(atom)]>>

\* C11: for every JSON object text, the parsing of each agent gives the
\* object of that text whether the text is wrapped in a fence with the json
\* tag, wrapped in a bare fence, or not fenced at all (checked under
\* ParseSpec, over every content of at most MaxPieces pieces).
C11_FenceInsensitive ==
    \A atom \in ObjectAtoms :
        parse_content \in WrappedAny(atom) =>
            /\ parse_pc \in {"compile", "followup", "parsed"} =>
                  parse_result.absorb = ParsedObject(atom)
            /\ parse_pc \in {"followup", "parsed"} =>
                  parse_result.compile = ParsedObject(atom)
            /\ parse_pc = "parsed" =>
                  parse_result.followup = ParsedObject(atom)

C11_Witness ==
    /\ parse_pc = "parsed"
    /\ parse_content = Tagged("{T}")
    /\ parse_result.absorb = ParsedObject("{T}")
    /\ parse_result.compile = ParsedObject("{T}")
    /\ parse_result.followup = ParsedObject("{T}")

\* The generation-client calls issued so far in the run.
TotalCalls ==
    SumUpTo(llm_calls.absorb, N) + llm_calls.compile + llm_calls.followup

\* C12: no call is repeated: at most one evaluation call per member and
\* exactly one once stage 1 is over; the invoke of the aggregation and of
\* the action planning begin at most once each and exactly once in a finished
\* run, and each issues at most one call; a finished run over n members has
\* issued between n and n + 2 calls, whatever failed.
C12_NoRetry ==
    /\ \A k \in 1..N : llm_calls.absorb[k] <= 1
    /\ Stage1Over => \A k \in 1..N : llm_calls.absorb[k] = 1
    /\ invoked.compile <= 1
    /\ invoked.followup <= 1
    /\ llm_calls.compile <= invoked.compile
    /\ llm_calls.followup <= invoked.followup
    /\ pc = "done" =>
          /\ invoked.compile = 1
          /\ invoked.followup = 1
          /\ N <= TotalCalls
          /\ TotalCalls <= N + 2

C12_Witness ==
    /\ pc = "done"
    /\ N = 3
    /\ observed.absorb[1].failed
    /\ observed.compile.failed
    /\ TotalCalls = N + 1

\* C13: the invoke of the aggregation begins only when every member has
\* been evaluated (its call issued and ended, its result collected, no
\* evaluation call in flight), so that it is given one result per member; the
\* invoke of the action planning begins only when the aggregation has
\* returned its result.
C13_StagesSequential ==
    /\ invoked.compile > 0 =>
          /\ Len(evaluations) = N
          /\ \A k \in 1..N :
                /\ llm_calls.absorb[k] = 1
                /\ observed.absorb[k].called
                /\ k \notin InFlight
          /\ pc \notin {"batch", "gather", "pause"}
    /\ invoked.followup > 0 =>
          /\ invoked.compile = 1
          /\ Len(kompilasi) = 1
          /\ pc \notin {"compile", "compile_wait"}
          /\ llm_calls.compile = 1 => observed.compile.called

C13_Witness ==
    /\ pc = "followup_wait"
    /\ N = 3
    /\ batch_size = 2
    /\ invoked.compile = 1
    /\ invoked.followup = 1
    /\ \E k \in 1..N : HasError(evaluations[k])

\* The generation-client calls that are issued and have not ended.
EvalCallsInFlight ==
    {k \in 1..N : llm_calls.absorb[k] > 0 /\ ~observed.absorb[k].called}

CompileCallInFlight ==
    IF llm_calls.compile > 0 /\ ~observed.compile.called THEN 1 ELSE 0

FollowUpCallInFlight ==
    IF llm_calls.followup > 0 /\ ~observed.followup.called THEN 1 ELSE 0

CallsInFlight ==
    Cardinality(EvalCallsInFlight) + CompileCallInFlight
        + FollowUpCallInFlight

\* C14: at every point of a run at most batch_size generation-client calls
\* are in flight during stage 1 and at most one afterwards; no evaluation
\* call is in flight during the pause between two batches or in a later
\* stage.
C14_InFlightBounded ==
    /\ pc \in {"batch", "gather", "pause"} =>
          /\ CallsInFlight <= batch_size
          /\ CompileCallInFlight = 0
          /\ FollowUpCallInFlight = 0
    /\ pc \notin {"batch", "gather", "pause"} => CallsInFlight <= 1
    /\ pc # "gather" => EvalCallsInFlight = {}

C14_Witness ==
    /\ pc = "gather"
    /\ batch_size = 2
    /\ N = 3
    /\ EvalCallsInFlight = {1, 2}
    /\ CallsInFlight = batch_size

\* The number of batches of the run.
Batches == (N + batch_size - 1) \div batch_size

\* C15: a pause is taken after each batch but the last and nowhere else.
\* While batch j runs, j - 1 pauses have been taken; a pause begins only when
\* a batch that is not the last has been gathered, with no call of a later
\* batch issued; once stage 1 is over the run has taken one pause less than
\* it has batches, and none when it has one batch or no member.
C15_PauseBetweenBatches ==
    /\ pc = "gather" => pauses = batch_no - 1
    /\ pc = "pause" =>
          /\ pauses = batch_no - 1
          /\ batch_no < Batches
          /\ Len(evaluations) = batch_no * batch_size
          /\ EvalCallsInFlight = {}
          /\ \A k \in 1..N :
                k > batch_no * batch_size => llm_calls.absorb[k] = 0
    /\ (pc = "batch" /\ lo <= N) => pauses = batch_no
    /\ Stage1Over =>
          /\ batch_no = Batches
          /\ pauses = IF Batches = 0 THEN 0 ELSE Batches - 1

C15_Witness ==
    /\ pc = "compile"
    /\ N = 3
    /\ batch_size = 2
    /\ Batches = 2
    /\ pauses = 1

RelevanceLevels == {"Tinggi", "Sedang", "Rendah"}

\* C17: the relevance of every evaluation result is one of the three levels
\* Tinggi, Sedang, Rendah, whatever the generation client returned (JSON
\* without the relevance field or with another spelling included) and on
\* every failure path.
C17_RelevanceIsALevel ==
    \A k \in 1..N :
        EvalDone(k) => EvalResult(k).relevansi \in RelevanceLevels

\* The parsing the specification describes: a leading fence with the tag is
\* cut, else a leading bare fence; then a trailing fence; then the
\* surrounding whitespace; then the text is parsed as JSON.
SpecStrip(text) ==
    LET c1 == IF StartsWith(text, Fence \o <<"json">>)
              THEN SubSeq(text, 5, Len(text))
              ELSE IF StartsWith(text, Fence)
              THEN SubSeq(text, 4, Len(text))
              ELSE text
        c2 == IF EndsWith(c1, Fence)
              THEN SubSeq(c1, 1, Len(c1) - 3) ELSE c1
    IN  Strip(c2)

\* The outcome of a parsing: the value, or MalformedResponse.
Outcome(parsed) ==
    IF parsed.exc # None
    THEN [malformed |-> TRUE, value |-> JsonValue("[]")]
    ELSE [malformed |-> FALSE, value |-> parsed.value]

SpecOutcome(text) == Outcome(JsonLoads(SpecStrip(text)))

\* C18: for every content, the parsing of each agent gives the outcome of
\* the specification's parsing: the same value, or MalformedResponse
\* (checked under ParseSpec, over every content of at most MaxPieces pieces).
C18_ParsingAsSpecified ==
    /\ parse_result.absorb # <<>> =>
          Outcome(parse_result.absorb[1]) = SpecOutcome(parse_content)
    /\ parse_result.compile # <<>> =>
          Outcome(parse_result.compile[1]) = SpecOutcome(parse_content)
    /\ parse_result.followup # <<>> =>
          Outcome(parse_result.followup[1]) = SpecOutcome(parse_content)

\* The evaluation results the relevance test of the filter admits by itself.
RelevantByLevel(responses) ==
    SelectSeq(responses, LAMBDA r : r.relevansi \in {"Tinggi", "Sedang"})

\* C19: every evaluation result with an error has relevance Low, so none
\* with relevance Tinggi or Sedang carries an error, and the filter of the
\* aggregation keeps exactly the results its relevance test admits.
C19_ErrorImpliesLow ==
    /\ \A k \in 1..N :
          (EvalDone(k) /\ EvalResult(k).error # None) =>
              /\ IsLow(EvalResult(k).relevansi)
              /\ EvalResult(k).relevansi \notin {"Tinggi", "Sedang"}
    /\ RelevantResponses(evaluations) = RelevantByLevel(evaluations)

C19_Witness ==
    /\ pc = "compile"
    /\ N = 3
    /\ HasError(evaluations[1])
    /\ evaluations[2].relevansi = "Tinggi"
    /\ HasError(evaluations[3])
    /\ Len(RelevantResponses(evaluations)) = 1

\* A generation-client call that returned content holding JSON.
ReturnedJson(o) == o.called /\ ~o.failed /\ ~o.nojson

\* C20: an action-planning call is issued only after the aggregation call
\* was issued and returned content holding JSON; an aggregation call is
\* issued only after some evaluation call returned content holding JSON with
\* relevance Tinggi or Sedang; when every evaluation call failed, one call
\* per member is issued and none for the aggregation and the action planning.
C20_LaterCallsGated ==
    /\ llm_calls.followup > 0 =>
          /\ llm_calls.compile = 1
          /\ ReturnedJson(observed.compile)
    /\ llm_calls.compile > 0 =>
          \E k \in 1..N :
              /\ ReturnedJson(observed.absorb[k])
              /\ EvalDone(k)
              /\ EvalResult(k).relevansi \in {"Tinggi", "Sedang"}
    /\ (Stage1Over /\ \A k \in 1..N : CallFailure(observed.absorb[k])) =>
          /\ \A k \in 1..N : llm_calls.absorb[k] = 1
          /\ llm_calls.compile = 0
          /\ llm_calls.followup = 0
          /\ TotalCalls = N

C20_Witness ==
    /\ pc = "followup_wait"
    /\ N = 2
    /\ llm_calls.followup = 1
    /\ ReturnedJson(observed.compile)
    /\ observed.absorb[1].failed
    /\ evaluations[2].relevansi = "Sedang"

====
